---- MODULE Spec2Model ----
(***************************************************************************)
(* Model of the two browser applications of the repository:                *)
(*   - the contact form with message history   (src/unnamed/part_000)      *)
(*   - the todo list with search and filter                                *)
(*                     (src/Dynamic Todo List with Search/script.js)       *)
(* One page is loaded per behaviour (variable page).  Every event handler  *)
(* is one action: the browser runs handlers to completion one at a time.   *)
(* Strings that the code inspects (trim, length, includes, the e-mail      *)
(* pattern) are sequences of one-character strings.                        *)
(***************************************************************************)
EXTENDS Naturals, Sequences, FiniteSets

\* ---------------------------------------------------------------- bounds
MaxItems == 2      \* longest in-memory list a submit may extend
MaxClock == 1      \* largest reading of the millisecond clock
MaxEmailLen == 6   \* longest text typed into the e-mail field in SpecEmail

\* --------------------------------------------------------------- strings
WhiteSpace == {" ", "\t"}

Lower(c) ==
  CASE c = "A" -> "a" [] c = "B" -> "b" [] c = "C" -> "c" [] c = "H" -> "h"
    [] c = "X" -> "x" [] OTHER -> c

\* String.prototype.toLowerCase
toLowerCase(s) == [i \in 1..Len(s) |-> Lower(s[i])]

RECURSIVE trimStart(_)
trimStart(s) ==
  IF s = <<>> THEN <<>>
  ELSE IF Head(s) \in WhiteSpace THEN trimStart(Tail(s)) ELSE s

RECURSIVE trimEnd(_)
trimEnd(s) ==
  IF s = <<>> THEN <<>>
  ELSE IF s[Len(s)] \in WhiteSpace THEN trimEnd(SubSeq(s, 1, Len(s) - 1)) ELSE s

\* String.prototype.trim
trim(s) == trimEnd(trimStart(s))

\* String.prototype.includes
includes_startsWith(s, q) == Len(q) <= Len(s) /\ SubSeq(s, 1, Len(q)) = q

includes(s, q) ==
  \E i \in 0..(Len(s) - Len(q)) : SubSeq(s, i + 1, i + Len(q)) = q

\* ------------------------------------------------- values and localStorage
\* A JavaScript value held in the list variable: an array, or a non-array
\* (null) obtained from JSON.parse of text the application did not write.
Arr(s)    == [kind |-> "array", items |-> s]
NullValue == [kind |-> "null", items |-> <<>>]

\* The text stored under a key: absent (getItem returns null), the empty
\* text, text that JSON.parse rejects, or the JSON text of a value.
Absent      == [kind |-> "absent", value |-> NullValue]
EmptyText   == [kind |-> "empty", value |-> NullValue]
Unparsable  == [kind |-> "garbage", value |-> NullValue]
JSONstringify(v) == [kind |-> "json", value |-> v]

\* raw ? JSON.parse(raw) : []   inside try { } catch { return [] }
JSONparseThrows(raw) == raw.kind = "garbage"

loadMessages(raw, readOk) ==
  IF ~readOk THEN Arr(<<>>)                       \* getItem throws: catch
  ELSE IF raw.kind \in {"absent", "empty"} THEN Arr(<<>>)   \* raw is falsy
  ELSE IF JSONparseThrows(raw) THEN Arr(<<>>)     \* SyntaxError: catch
  ELSE raw.value

loadTodos(raw, readOk) ==
  IF ~readOk THEN Arr(<<>>)
  ELSE IF raw.kind \in {"absent", "empty"} THEN Arr(<<>>)
  ELSE IF JSONparseThrows(raw) THEN Arr(<<>>)
  ELSE raw.value

\* saveMessages / saveTodos: the stored text after the call; the return
\* value of the call is writeOk itself.
saveMessages(raw, list, writeOk) ==
  IF writeOk THEN JSONstringify(list) ELSE raw

saveTodos(raw, list, writeOk) ==
  IF writeOk THEN JSONstringify(list) ELSE raw

\* ------------------------------------------------------------ validators
NameRequired    == "Name is required."
NameTooShort    == "Name must have at least 2 characters."
EmailRequired   == "Email is required."
EmailInvalid    == "Enter a valid email."
MessageRequired == "Message is required."
MessageTooShort == "Message must be at least 10 characters."

validateName_min1(value) ==
  LET v == trim(value) IN
  IF Len(v) = 0 THEN [valid |-> FALSE, message |-> NameRequired]
  ELSE [valid |-> TRUE, message |-> ""]

validateName(value) ==
  LET v == trim(value) IN
  IF Len(v) = 0 THEN [valid |-> FALSE, message |-> NameRequired]
  ELSE IF Len(v) < 2 THEN [valid |-> FALSE, message |-> NameTooShort]
  ELSE [valid |-> TRUE, message |-> ""]

\* /^[^\s@]+@[^\s@]+\.[^\s@]+$/ : one "@", no white space, and after the
\* "@" a "." that is neither the first nor the last character.
reTest_anyNonSpace(v) ==
  \E i, j \in 1..Len(v) :
    /\ v[i] = "@" /\ v[j] = "."
    /\ 1 < i /\ i + 1 < j /\ j < Len(v)
    /\ \A k \in 1..Len(v) : v[k] \notin WhiteSpace

reTest(v) ==
  \E i, j \in 1..Len(v) :
    /\ v[i] = "@" /\ v[j] = "."
    /\ 1 < i /\ i + 1 < j /\ j < Len(v)
    /\ \A k \in 1..Len(v) : v[k] \notin WhiteSpace /\ (k # i => v[k] # "@")

validateEmail(value) ==
  LET v == trim(value) IN
  IF Len(v) = 0 THEN [valid |-> FALSE, message |-> EmailRequired]
  ELSE IF reTest(v) THEN [valid |-> TRUE, message |-> ""]
  ELSE [valid |-> FALSE, message |-> EmailInvalid]

validateMessage(value) ==
  LET v == trim(value) IN
  IF Len(v) = 0 THEN [valid |-> FALSE, message |-> MessageRequired]
  ELSE IF Len(v) < 10 THEN [valid |-> FALSE, message |-> MessageTooShort]
  ELSE [valid |-> TRUE, message |-> ""]

\* The two guards of the todo submit handler: the message of the guard that
\* rejects the trimmed text v, or "" when v is accepted.
PleaseEnterTodo == "Please enter a todo."
TodoTooShort    == "Todo must be at least 3 characters."

todoReject_min2(v) ==
  IF Len(v) = 0 THEN PleaseEnterTodo
  ELSE IF Len(v) < 2 THEN TodoTooShort ELSE ""

todoReject(v) ==
  IF Len(v) = 0 THEN PleaseEnterTodo
  ELSE IF Len(v) < 3 THEN TodoTooShort ELSE ""

\* ----------------------------------------------------------------- state
VARIABLES
  page,          \* which application is loaded: "contact" or "todo"
  hasUUID,       \* whether crypto.randomUUID exists in this browser
  sorts,         \* todo: whether the loaded script is the variant whose
                 \* applyFiltersAndSearch sorts its result (part_001)
  now,           \* the latest reading of the millisecond clock
  localStorage,  \* the text stored under the page's STORAGE_KEY
  messages,      \* contact: let messages
  todos,         \* todo: let todos
  listContainer, \* the entities rendered into listContainer, in order
  counterEl,     \* todo: the totals shown by updateCounter
  submitMsgEl,   \* textContent of the element #submit-message
  hideTimers,    \* contact: pending auto-hide timers of showGlobalMessage
  nameInput, emailInput, messageInput,   \* contact: field values
  todoInput,     \* todo: value of the new-todo field
  searchInput,   \* todo: value of the search box
  timers,        \* per debounced function, its pending setTimeout timers
  sinceTrigger,  \* per debounced function, ms since it was last called
  fieldError,    \* contact: text of the error element of each field
  detail,        \* whether the behaviour tracks the passage of time and the
                 \* error elements of the contact fields
  currentFilter, \* todo: "all" | "active" | "completed"
  currentQuery,  \* todo: the applied search text
  last           \* the event handled by the latest step and its outcome

vars == <<page, hasUUID, sorts, now, localStorage, messages, todos,
          listContainer, counterEl, submitMsgEl, hideTimers, nameInput,
          emailInput, messageInput, todoInput, searchInput, timers,
          sinceTrigger, fieldError, detail, currentFilter, currentQuery,
          last>>

contactVars == <<messages, hideTimers, nameInput, emailInput, messageInput>>
todoVars == <<todos, counterEl, todoInput, searchInput, timers,
              currentFilter, currentQuery>>
envVars == <<page, hasUUID, sorts, detail>>

\* Descriptor of a step: what ran ("load", "submit", "delete", "toggle", and
\* "blur", and "other" for every other step that does not touch the list:
\* typing, a filter click, a timer, a cancelled delete, time passing), the
\* position of the rendered item it was given, the text it found in the
\* new-todo field, what happened to its storage write and read, and whether
\* it ended in an uncaught exception.
Event(op, idx, typed, wrote, read, fault) ==
  [op |-> op, idx |-> idx, typed |-> typed, wrote |-> wrote, read |-> read,
   fault |-> fault]

Quiet(op) == Event(op, 0, <<>>, "none", "none", FALSE)

Wrote(writeOk) == IF writeOk THEN "ok" ELSE "fail"
ReadAfter(writeOk, readOk) ==
  IF writeOk THEN "none" ELSE IF readOk THEN "ok" ELSE "fail"

\* Identifiers carried by the entities of a list.
idsOf(list) == {list[i].id : i \in 1..Len(list)}

\* crypto.randomUUID() returns an identifier that no entity carries: the
\* first one that is in use nowhere (in the list variable, in the stored
\* list, in the rendered list).
randomUUID(inUse) ==
  <<"uuid", CHOOSE n \in 1..(Cardinality(inUse) + 1) :
              /\ <<"uuid", n>> \notin inUse
              /\ \A m \in 1..(n - 1) : <<"uuid", m>> \in inUse>>

\* (crypto && crypto.randomUUID) ? crypto.randomUUID()
\*                               : Date.now().toString()
newId(t, inUse) == IF hasUUID THEN randomUUID(inUse) ELSE <<"ms", t>>

\* ------------------------------------------------------ list operations
\* Array.prototype.unshift
unshift_append(list, x) == list \o <<x>>

unshift(list, x) == <<x>> \o list

\* list.filter(t => t.id !== id)
RECURSIVE filterOutId_first(_, _)
filterOutId_first(list, id) ==
  IF list = <<>> THEN <<>>
  ELSE IF Head(list).id = id THEN Tail(list)
  ELSE <<Head(list)>> \o filterOutId_first(Tail(list), id)

RECURSIVE filterOutId(_, _)
filterOutId(list, id) ==
  IF list = <<>> THEN <<>>
  ELSE IF Head(list).id = id THEN filterOutId(Tail(list), id)
  ELSE <<Head(list)>> \o filterOutId(Tail(list), id)

\* todos.find(x => x.id === id): position of the first match, 0 if none
findIndex(list, id) ==
  IF \E i \in 1..Len(list) : list[i].id = id
  THEN CHOOSE i \in 1..Len(list) :
         list[i].id = id /\ \A j \in 1..(i - 1) : list[j].id # id
  ELSE 0

\* t.completed = !!toggle.checked   for t = todos.find(...)
setCompleted(list, id, checked) ==
  [i \in 1..Len(list) |->
     IF i = findIndex(list, id) THEN [list[i] EXCEPT !.completed = checked]
     ELSE list[i]]

\* const ok = save(list); if (!ok) { list = load(); }
keepOrReload_keep(ok, attempted, reloaded) == attempted

keepOrReload(ok, attempted, reloaded) == IF ok THEN attempted ELSE reloaded

\* ------------------------------------------------------- todo rendering
RECURSIVE keep(_, _, _)
keep(list, filter, q) ==
  IF list = <<>> THEN <<>>
  ELSE LET t == Head(list)
           byFilter == CASE filter = "active" -> ~t.completed
                         [] filter = "completed" -> t.completed
                         [] OTHER -> TRUE
           byQuery == Len(q) > 0 => includes(toLowerCase(t.text), q)
       IN (IF byFilter /\ byQuery THEN <<t>> ELSE <<>>)
            \o keep(Tail(list), filter, q)

applyFiltersAndSearch_noFilter(list, filter, query) ==
  keep(list, "all", toLowerCase(trim(query)))

\* The sequence applyFiltersAndSearch hands to renderTodoList.
applyFiltersAndSearch(list, filter, query) ==
  keep(list, filter, toLowerCase(trim(query)))

\* results.sort((a,b) => new Date(b.createdAt) - new Date(a.createdAt)):
\* Array.prototype.sort is stable, so items of equal timestamp keep their
\* relative order.
RECURSIVE insertByDate(_, _)
insertByDate(x, sorted) ==
  IF sorted = <<>> THEN <<x>>
  ELSE IF Head(sorted).createdAt <= x.createdAt THEN <<x>> \o sorted
  ELSE <<Head(sorted)>> \o insertByDate(x, Tail(sorted))

RECURSIVE sortNewestFirst(_)
sortNewestFirst(list) ==
  IF list = <<>> THEN <<>>
  ELSE insertByDate(Head(list), sortNewestFirst(Tail(list)))

\* updateCounter
updateCounter_ofCompleted(list) ==
  [total |-> Cardinality({i \in 1..Len(list) : list[i].completed}),
   completed |-> Cardinality({i \in 1..Len(list) : list[i].completed})]

updateCounter(list) ==
  [total |-> Len(list),
   completed |-> Cardinality({i \in 1..Len(list) : list[i].completed})]

\* applyFiltersAndSearch() on the list variable: todos.slice() throws when
\* todos is not an array, before anything is rendered.
RenderTodos(val, filter, query, oldList, oldCounter) ==
  IF val.kind = "array"
  THEN [fault |-> FALSE,
        list |-> IF sorts
                 THEN sortNewestFirst(
                        applyFiltersAndSearch(val.items, filter, query))
                 ELSE applyFiltersAndSearch(val.items, filter, query),
        counter |-> updateCounter(val.items)]
  ELSE [fault |-> TRUE, list |-> oldList, counter |-> oldCounter]

\* renderMessagesList: "No messages yet" for a falsy or empty argument
renderMessagesList(val) == IF val.kind = "array" THEN val.items ELSE <<>>

\* -------------------------------------------------------- input alphabets
\* Values the user can leave in the new-todo field: empty, too short after
\* trimming, and a text that is accepted.
TodoTexts == { <<>>, <<" ", "o", "k">>, <<" ", "a", "b", "c", " ">> }

\* Values the user can type into the search box: one that the accepted
\* text contains once trimmed and lower-cased, one that it does not.
SearchTexts == { <<" ", "B", " ">>, <<"z">> }

Filters == {"all", "active", "completed"}

\* -------------------------------------------------------------- messages
CouldNotSaveTodo   == "Could not save todo locally. Check storage settings."
TodoAdded          == "Todo added!"
CouldNotDeleteTodo == "Could not delete todo (storage error)."
CouldNotUpdateTodo == "Could not update todo (storage error)."
CouldNotSaveMessage ==
  "Could not save message locally. Please check browser settings."
MessageSubmitted   == "Message submitted!"
CouldNotDeleteMessage == "Could not delete message (storage error)."

StaticCounter == [total |-> 0, completed |-> 0]

\* ---------------------------------------------------------------- timers
Fields == {"name", "email", "message"}
DebouncedFns == Fields \cup {"search"}

SEARCH_DEBOUNCE_MS == 400
FIELD_DEBOUNCE_MS == 300

\* The wait argument given to debounce for each debounced function.
wait(fn) == IF fn = "search" THEN SEARCH_DEBOUNCE_MS ELSE FIELD_DEBOUNCE_MS

\* The value a handler leaves in a variable that only detailed behaviours
\* track.
Track(new, old) == IF detail THEN new ELSE old

\* setTimeout(fn, ms): the time left until the timer is due.  Where time is
\* not tracked every timer counts as due: it may fire at any later moment.
Delay(ms) == Track(ms, 0)

\* One call of the function debounce returns: clearTimeout(timer) cancels
\* the timer the closure holds, which is the latest one it set, and
\* timer = setTimeout(...) sets the new one.
debounce_noClear(pending, ms) ==
  {[t EXCEPT !.latest = FALSE] : t \in pending}
    \cup {[due |-> Delay(ms), latest |-> TRUE]}

debounce_noSet(pending, ms) == {t \in pending : ~t.latest}

debounce(pending, ms) ==
  {t \in pending : ~t.latest} \cup {[due |-> Delay(ms), latest |-> TRUE]}

NoTimers == [fn \in DebouncedFns |-> {}]
NoErrors == [f \in Fields |-> ""]
Rested == [fn \in DebouncedFns |-> wait(fn)]

\* ------------------------------------------------------------- page load
\* The state right after the script of the page has run against the stored
\* text raw: the list is loaded, the module-level variables get their
\* initial values and the first render is made.
Loaded(raw, readOk) ==
  /\ localStorage = raw
  /\ messages = IF page = "contact" THEN loadMessages(raw, readOk)
                ELSE Arr(<<>>)
  /\ todos = IF page = "todo" THEN loadTodos(raw, readOk) ELSE Arr(<<>>)
  /\ currentFilter = "all"
  /\ currentQuery = <<>>
  /\ LET r == RenderTodos(todos, "all", <<>>, <<>>, StaticCounter) IN
       /\ listContainer = IF page = "contact"
                          THEN renderMessagesList(messages) ELSE r.list
       /\ counterEl = IF page = "contact" THEN StaticCounter ELSE r.counter
       /\ last = Event("load", 0, <<>>, "none",
                       IF readOk THEN "ok" ELSE "fail",
                       page = "todo" /\ r.fault)
  /\ submitMsgEl = ""
  /\ hideTimers = {}
  /\ nameInput = <<>> /\ emailInput = <<>> /\ messageInput = <<>>
  /\ todoInput = <<>>
  /\ searchInput = <<>>
  /\ timers = NoTimers
  /\ sinceTrigger = Rested
  /\ fieldError = NoErrors

\* The browser starts with nothing stored under the key.  The todo page
\* runs script.js; the variant part_001 differs from it in the sort of
\* applyFiltersAndSearch only and is followed in SpecDerive.  Time and the
\* error elements of the contact fields, which feed neither list nor
\* storage, are followed in SpecDebounce and SpecForm.
Init ==
  /\ page \in {"contact", "todo"}
  /\ hasUUID \in BOOLEAN
  /\ sorts = FALSE
  /\ detail = FALSE
  /\ now = 0
  /\ \E readOk \in BOOLEAN : Loaded(Absent, readOk)

\* ------------------------------------------------------------- todo page
\* form 'submit' listener.  No listener watches the new-todo field, so the
\* text the user has put there is first seen here: typed is the value of
\* todoInput when the handler starts.  t is what the clock shows when the
\* handler builds the entity: the latest reading or a later one.
SubmitTodo(typed, t, writeOk, readOk) ==
  /\ page = "todo"
  /\ LET v == trim(typed)
         rejected == todoReject(v)
     IN
     IF rejected # ""
     THEN /\ submitMsgEl' = rejected
          /\ todoInput' = typed
          /\ last' = Event("submit", 0, typed, "none", "none", FALSE)
          /\ UNCHANGED <<now, localStorage, todos, listContainer,
                         counterEl>>
     ELSE IF todos.kind # "array"
     THEN \* todos.unshift throws
          /\ todoInput' = typed
          /\ last' = Event("submit", 0, typed, "none", "none", TRUE)
          /\ UNCHANGED <<now, localStorage, todos, listContainer,
                         counterEl, submitMsgEl>>
     ELSE /\ Len(todos.items) < MaxItems
          /\ now' = t
          /\ LET newTodo == [id |-> newId(t, idsOf(todos.items) \cup idsOf(listContainer)
                                         \cup idsOf(localStorage.value.items)),
                             text |-> v, completed |-> FALSE,
                             createdAt |-> t]
                 attempted == Arr(unshift(todos.items, newTodo))
                 after == keepOrReload(writeOk, attempted,
                                       loadTodos(localStorage, readOk))
                 r == RenderTodos(after, currentFilter, currentQuery,
                                  listContainer, counterEl)
             IN
             /\ localStorage' = saveTodos(localStorage, attempted, writeOk)
             /\ todos' = after
             /\ submitMsgEl' = IF writeOk THEN TodoAdded ELSE CouldNotSaveTodo
             /\ todoInput' = IF writeOk THEN <<>> ELSE typed
             /\ listContainer' = r.list
             /\ counterEl' = r.counter
             /\ last' = Event("submit", 0, typed, Wrote(writeOk),
                              ReadAfter(writeOk, readOk), r.fault)
  /\ UNCHANGED <<page, hasUUID, sorts, detail, sinceTrigger, fieldError,
                 messages, hideTimers, nameInput,
                 emailInput, messageInput, searchInput, timers,
                 currentFilter, currentQuery>>

\* listContainer 'click' listener, target inside a .delete-btn: the button
\* of the k-th rendered item.
DeleteTodo(k, confirmed, writeOk, readOk) ==
  /\ page = "todo"
  /\ k \in 1..Len(listContainer)
  /\ LET id == listContainer[k].id IN
     IF ~confirmed
     THEN /\ last' = Quiet("other")
          /\ UNCHANGED <<localStorage, todos, listContainer, counterEl,
                         submitMsgEl>>
     ELSE IF todos.kind # "array"
     THEN \* todos.filter throws
          /\ last' = Event("delete", k, <<>>, "none", "none", TRUE)
          /\ UNCHANGED <<localStorage, todos, listContainer, counterEl,
                         submitMsgEl>>
     ELSE LET attempted == Arr(filterOutId(todos.items, id))
              after == keepOrReload(writeOk, attempted,
                                    loadTodos(localStorage, readOk))
              r == RenderTodos(after, currentFilter, currentQuery,
                               listContainer, counterEl)
          IN
          /\ localStorage' = saveTodos(localStorage, attempted, writeOk)
          /\ todos' = after
          /\ submitMsgEl' = IF writeOk THEN submitMsgEl
                            ELSE CouldNotDeleteTodo
          /\ listContainer' = r.list
          /\ counterEl' = r.counter
          /\ last' = Event("delete", k, <<>>, Wrote(writeOk),
                           ReadAfter(writeOk, readOk), r.fault)
  /\ UNCHANGED <<page, hasUUID, sorts, detail, sinceTrigger, fieldError,
                 now, messages, hideTimers,
                 nameInput, emailInput, messageInput, todoInput,
                 searchInput, timers, currentFilter, currentQuery>>

\* listContainer 'click' listener, target the .toggle-complete checkbox of
\* the k-th rendered item.  The browser has already switched the checkbox,
\* which was rendered checked exactly when the item was completed.
ToggleTodo(k, writeOk, readOk) ==
  /\ page = "todo"
  /\ k \in 1..Len(listContainer)
  /\ LET id == listContainer[k].id
         checked == ~listContainer[k].completed
     IN
     IF todos.kind # "array"
     THEN \* todos.find throws
          /\ last' = Event("toggle", k, <<>>, "none", "none", TRUE)
          /\ UNCHANGED <<localStorage, todos, listContainer, counterEl,
                         submitMsgEl>>
     ELSE IF findIndex(todos.items, id) = 0
     THEN /\ last' = Event("toggle", k, <<>>, "none", "none", FALSE)
          /\ UNCHANGED <<localStorage, todos, listContainer, counterEl,
                         submitMsgEl>>
     ELSE LET attempted == Arr(setCompleted(todos.items, id, checked))
              after == keepOrReload(writeOk, attempted,
                                    loadTodos(localStorage, readOk))
              r == RenderTodos(after, currentFilter, currentQuery,
                               listContainer, counterEl)
          IN
          /\ localStorage' = saveTodos(localStorage, attempted, writeOk)
          /\ todos' = after
          /\ submitMsgEl' = IF writeOk THEN submitMsgEl
                            ELSE CouldNotUpdateTodo
          /\ listContainer' = r.list
          /\ counterEl' = r.counter
          /\ last' = Event("toggle", k, <<>>, Wrote(writeOk),
                           ReadAfter(writeOk, readOk), r.fault)
  /\ UNCHANGED <<page, hasUUID, sorts, detail, sinceTrigger, fieldError,
                 now, messages, hideTimers,
                 nameInput, emailInput, messageInput, todoInput,
                 searchInput, timers, currentFilter, currentQuery>>

\* 'click' listener of a filter button
FilterClick(f) ==
  /\ page = "todo"
  /\ currentFilter' = f
  /\ LET r == RenderTodos(todos, f, currentQuery, listContainer, counterEl)
     IN /\ listContainer' = r.list
        /\ counterEl' = r.counter
        /\ last' = Event("other", 0, <<>>, "none", "none", r.fault)
  /\ UNCHANGED <<page, hasUUID, sorts, detail, sinceTrigger, fieldError,
                 now, localStorage, messages,
                 todos, submitMsgEl, hideTimers, nameInput, emailInput,
                 messageInput, todoInput, searchInput, timers,
                 currentQuery>>

\* searchInput 'input' listener: debouncedSearch() clears the pending timer
\* and starts a new one.
SearchInput(v) ==
  /\ page = "todo"
  /\ searchInput' = v
  /\ timers' = [timers EXCEPT !["search"] = debounce(@, SEARCH_DEBOUNCE_MS)]
  /\ sinceTrigger' = Track([sinceTrigger EXCEPT !["search"] = 0],
                           sinceTrigger)
  /\ last' = Quiet("other")
  /\ UNCHANGED <<page, hasUUID, sorts, detail, fieldError, now,
                 localStorage, messages, todos, listContainer, counterEl,
                 submitMsgEl, hideTimers, nameInput, emailInput,
                 messageInput, todoInput, currentFilter, currentQuery>>

\* The timer of debouncedSearch fires.
SearchTimerFire ==
  /\ page = "todo"
  /\ \E t \in timers["search"] :
       /\ t.due = 0
       /\ timers' = [timers EXCEPT !["search"] = @ \ {t}]
  /\ currentQuery' = searchInput
  /\ LET r == RenderTodos(todos, currentFilter, searchInput, listContainer,
                          counterEl)
     IN /\ listContainer' = r.list
        /\ counterEl' = r.counter
        /\ last' = Event("other", 0, <<>>, "none", "none", r.fault)
  /\ UNCHANGED <<page, hasUUID, sorts, detail, sinceTrigger, fieldError,
                 now, localStorage, messages, todos, submitMsgEl,
                 hideTimers, nameInput, emailInput, messageInput, todoInput,
                 searchInput, currentFilter>>

\* ---------------------------------------------------------- contact page
Names    == { <<"A">>, <<" ", "A", "l", " ">> }
Emails   == { <<"a", "@", "b">>, <<" ", "a", "@", "b", ".", "c", "o">> }
Bodies   == { <<"s", "h", "o", "r", "t">>,
              <<" ", "H", "e", "l", "l", "o", " ", "t", "h", "e", "r", "e",
                "!", "!">> }

\* showGlobalMessage(text, {autoHide}): setTimeout adds a timer that will
\* clear the message.  Timers started for earlier messages stay pending;
\* they are told apart from the newest one only ("stale" stands for one or
\* more of them).
showGlobalMessage(pending) ==
  (IF pending = {} THEN {} ELSE {"stale"}) \cup {"current"}

\* The validator of field f on the field's current value.
validateField(f) ==
  CASE f = "name" -> validateName(nameInput)
    [] f = "email" -> validateEmail(emailInput)
    [] f = "message" -> validateMessage(messageInput)

\* const { valid, message } = validate(input.value);
\* showFieldError(input, valid ? '' : message)
showFieldError(f) ==
  [fieldError EXCEPT ![f] = IF validateField(f).valid THEN ""
                            ELSE validateField(f).message]

FieldInput_keepsError(f) ==
  /\ fieldError' = fieldError
  /\ timers' = Track([timers EXCEPT ![f] = debounce(@, FIELD_DEBOUNCE_MS)],
                     timers)
  /\ sinceTrigger' = Track([sinceTrigger EXCEPT ![f] = 0], sinceTrigger)

\* Body of an 'input' listener: clearFieldError(input); debouncedValidate()
FieldInput(f) ==
  /\ fieldError' = Track([fieldError EXCEPT ![f] = ""], fieldError)
  /\ timers' = Track([timers EXCEPT ![f] = debounce(@, FIELD_DEBOUNCE_MS)],
                     timers)
  /\ sinceTrigger' = Track([sinceTrigger EXCEPT ![f] = 0], sinceTrigger)

\* nameInput / emailInput / messageInput 'input' listeners
TypeName(v) ==
  /\ page = "contact"
  /\ nameInput' = v
  /\ FieldInput("name")
  /\ last' = Quiet("other")
  /\ UNCHANGED <<page, hasUUID, sorts, detail, now, localStorage, messages,
                 todos, listContainer, counterEl, submitMsgEl, hideTimers,
                 emailInput, messageInput, todoInput, searchInput,
                 currentFilter, currentQuery>>

TypeEmail(v) ==
  /\ page = "contact"
  /\ emailInput' = v
  /\ FieldInput("email")
  /\ last' = Quiet("other")
  /\ UNCHANGED <<page, hasUUID, sorts, detail, now, localStorage, messages,
                 todos, listContainer, counterEl, submitMsgEl, hideTimers,
                 nameInput, messageInput, todoInput, searchInput,
                 currentFilter, currentQuery>>

TypeMessage(v) ==
  /\ page = "contact"
  /\ messageInput' = v
  /\ FieldInput("message")
  /\ last' = Quiet("other")
  /\ UNCHANGED <<page, hasUUID, sorts, detail, now, localStorage, messages,
                 todos, listContainer, counterEl, submitMsgEl, hideTimers,
                 nameInput, emailInput, todoInput, searchInput,
                 currentFilter, currentQuery>>

\* nameInput / emailInput / messageInput 'blur' listeners
Blur(f) ==
  /\ page = "contact"
  /\ fieldError' = showFieldError(f)
  /\ last' = Quiet("blur")
  /\ UNCHANGED <<page, hasUUID, sorts, detail, sinceTrigger, timers, now,
                 localStorage, messages, todos, listContainer, counterEl,
                 submitMsgEl, hideTimers, nameInput, emailInput,
                 messageInput, todoInput, searchInput, currentFilter,
                 currentQuery>>

\* A timer of debouncedValidateName / -Email / -Message fires.
FieldTimerFire(f) ==
  /\ page = "contact"
  /\ \E t \in timers[f] :
       /\ t.due = 0
       /\ timers' = [timers EXCEPT ![f] = @ \ {t}]
  /\ fieldError' = showFieldError(f)
  /\ last' = Quiet("other")
  /\ UNCHANGED <<page, hasUUID, sorts, detail, sinceTrigger, now,
                 localStorage, messages, todos, listContainer, counterEl,
                 submitMsgEl, hideTimers, nameInput, emailInput,
                 messageInput, todoInput, searchInput, currentFilter,
                 currentQuery>>

\* d ms pass while no handler runs: every pending timer comes d ms closer
\* to being due.
Elapse(d) ==
  /\ detail
  /\ \E fn \in DebouncedFns :
       \/ sinceTrigger[fn] < wait(fn)
       \/ \E t \in timers[fn] : t.due > 0
  /\ timers' = [fn \in DebouncedFns |->
                  {[t EXCEPT !.due = IF @ > d THEN @ - d ELSE 0] :
                     t \in timers[fn]}]
  /\ sinceTrigger' = [fn \in DebouncedFns |->
                        IF sinceTrigger[fn] + d < wait(fn)
                        THEN sinceTrigger[fn] + d ELSE wait(fn)]
  /\ last' = Quiet("other")
  /\ UNCHANGED <<page, hasUUID, sorts, detail, fieldError, now,
                 localStorage, messages, todos, listContainer, counterEl,
                 submitMsgEl, hideTimers, nameInput, emailInput,
                 messageInput, todoInput, searchInput, currentFilter,
                 currentQuery>>

\* form 'submit' listener
SubmitContact(t, writeOk, readOk) ==
  /\ page = "contact"
  /\ \* showFieldError for each field; the three clearFieldError calls of
     \* the success path find every error empty already
     fieldError' = Track([f \in Fields |-> showFieldError(f)[f]], fieldError)
  /\ IF ~(validateName(nameInput).valid /\ validateEmail(emailInput).valid
          /\ validateMessage(messageInput).valid)
     THEN /\ last' = Quiet("submit")
          /\ UNCHANGED <<now, localStorage, messages, listContainer,
                         submitMsgEl, hideTimers, nameInput, emailInput,
                         messageInput>>
     ELSE IF messages.kind # "array"
     THEN \* messages.unshift throws
          /\ last' = Event("submit", 0, <<>>, "none", "none", TRUE)
          /\ UNCHANGED <<now, localStorage, messages, listContainer,
                         submitMsgEl, hideTimers, nameInput, emailInput,
                         messageInput>>
     ELSE /\ Len(messages.items) < MaxItems
          /\ now' = t
          /\ LET newMessage == [id |-> newId(t, idsOf(messages.items)
                                            \cup idsOf(listContainer)
                                            \cup idsOf(localStorage.value.items)),
                                name |-> trim(nameInput),
                                email |-> trim(emailInput),
                                message |-> trim(messageInput),
                                sentAt |-> t]
                 attempted == Arr(unshift(messages.items, newMessage))
                 after == keepOrReload(writeOk, attempted,
                                       loadMessages(localStorage, readOk))
             IN
             /\ localStorage' = saveMessages(localStorage, attempted, writeOk)
             /\ messages' = after
             /\ listContainer' = renderMessagesList(after)
             /\ submitMsgEl' = IF writeOk THEN MessageSubmitted
                               ELSE CouldNotSaveMessage
             /\ hideTimers' = showGlobalMessage(hideTimers)
             /\ nameInput' = IF writeOk THEN <<>> ELSE nameInput
             /\ emailInput' = IF writeOk THEN <<>> ELSE emailInput
             /\ messageInput' = IF writeOk THEN <<>> ELSE messageInput
             /\ last' = Event("submit", 0, <<>>, Wrote(writeOk),
                              ReadAfter(writeOk, readOk), FALSE)
  /\ UNCHANGED <<page, hasUUID, sorts, detail, sinceTrigger, todos,
                 counterEl, todoInput, searchInput, timers, currentFilter,
                 currentQuery>>

\* listContainer 'click' listener, target inside the .delete-btn of the
\* k-th rendered message
DeleteMessage(k, confirmed, writeOk, readOk) ==
  /\ page = "contact"
  /\ k \in 1..Len(listContainer)
  /\ LET id == listContainer[k].id IN
     IF ~confirmed
     THEN /\ last' = Quiet("other")
          /\ UNCHANGED <<localStorage, messages, listContainer, submitMsgEl,
                         hideTimers>>
     ELSE IF messages.kind # "array"
     THEN \* messages.filter throws
          /\ last' = Event("delete", k, <<>>, "none", "none", TRUE)
          /\ UNCHANGED <<localStorage, messages, listContainer, submitMsgEl,
                         hideTimers>>
     ELSE LET attempted == Arr(filterOutId(messages.items, id))
              after == keepOrReload(writeOk, attempted,
                                    loadMessages(localStorage, readOk))
          IN
          /\ localStorage' = saveMessages(localStorage, attempted, writeOk)
          /\ messages' = after
          /\ listContainer' = renderMessagesList(after)
          /\ submitMsgEl' = IF writeOk THEN submitMsgEl
                            ELSE CouldNotDeleteMessage
          /\ hideTimers' = IF writeOk THEN hideTimers
                           ELSE showGlobalMessage(hideTimers)
          /\ last' = Event("delete", k, <<>>, Wrote(writeOk),
                           ReadAfter(writeOk, readOk), FALSE)
  /\ UNCHANGED <<page, hasUUID, sorts, detail, sinceTrigger, fieldError,
                 now, todos, counterEl, nameInput,
                 emailInput, messageInput, todoInput, searchInput,
                 timers, currentFilter, currentQuery>>

\* An auto-hide timer of showGlobalMessage fires: el.textContent = ''.
\* more: whether a further stale timer remains pending.
AutoHideFire(t, more) ==
  /\ page = "contact"
  /\ t \in hideTimers
  /\ t = "current" => ~more
  /\ submitMsgEl' = ""
  /\ hideTimers' = IF t = "stale" /\ more THEN hideTimers
                   ELSE hideTimers \ {t}
  /\ last' = Quiet("other")
  /\ UNCHANGED <<page, hasUUID, sorts, detail, sinceTrigger, fieldError,
                 now, localStorage, messages,
                 todos, listContainer, counterEl, nameInput, emailInput,
                 messageInput, todoInput, searchInput, timers,
                 currentFilter, currentQuery>>

\* ---------------------------------------------------------------- reload
\* The user reloads the page: the script runs again against the stored text.
PageLoad(readOk) ==
  /\ localStorage' = localStorage
  /\ messages' = IF page = "contact" THEN loadMessages(localStorage, readOk)
                 ELSE Arr(<<>>)
  /\ todos' = IF page = "todo" THEN loadTodos(localStorage, readOk)
              ELSE Arr(<<>>)
  /\ currentFilter' = "all"
  /\ currentQuery' = <<>>
  /\ LET r == RenderTodos(todos', "all", <<>>, <<>>, StaticCounter) IN
       /\ listContainer' = IF page = "contact"
                           THEN renderMessagesList(messages') ELSE r.list
       /\ counterEl' = IF page = "contact" THEN StaticCounter ELSE r.counter
       /\ last' = Event("load", 0, <<>>, "none",
                        IF readOk THEN "ok" ELSE "fail",
                        page = "todo" /\ r.fault)
  /\ submitMsgEl' = ""
  /\ hideTimers' = {}
  /\ nameInput' = <<>> /\ emailInput' = <<>> /\ messageInput' = <<>>
  /\ todoInput' = <<>>
  /\ searchInput' = <<>>
  /\ timers' = NoTimers
  /\ sinceTrigger' = Rested
  /\ fieldError' = NoErrors
  /\ UNCHANGED <<page, hasUUID, sorts, detail, now>>

\* ------------------------------------------------------- specifications
\* What the store does to a handler: <<write succeeds, read succeeds>>.  A
\* handler reads only after its write has failed.
IO == { <<TRUE, TRUE>>, <<FALSE, TRUE>>, <<FALSE, FALSE>> }

Next ==
  \/ \E readOk \in BOOLEAN : PageLoad(readOk)
  \/ \E v \in TodoTexts, t \in now..MaxClock, io \in IO :
       SubmitTodo(v, t, io[1], io[2])
  \/ \E k \in 1..Len(listContainer), confirmed \in BOOLEAN, io \in IO :
       DeleteTodo(k, confirmed, io[1], io[2])
  \/ \E k \in 1..Len(listContainer), io \in IO : ToggleTodo(k, io[1], io[2])
  \/ \E f \in Filters : FilterClick(f)
  \/ \E v \in SearchTexts : SearchInput(v)
  \/ SearchTimerFire
  \/ \E v \in Names : TypeName(v)
  \/ \E v \in Emails : TypeEmail(v)
  \/ \E v \in Bodies : TypeMessage(v)
  \/ \E t \in now..MaxClock, io \in IO : SubmitContact(t, io[1], io[2])
  \/ \E k \in 1..Len(listContainer), confirmed \in BOOLEAN, io \in IO :
       DeleteMessage(k, confirmed, io[1], io[2])
  \/ \E t \in {"stale", "current"}, more \in BOOLEAN : AutoHideFire(t, more)

Spec == Init /\ [][Next]_vars

\* Any text may already be stored under the key when the page is opened.
StoredTodo == [id |-> <<"uuid", 0>>, text |-> <<"a", "b", "c">>,
               completed |-> TRUE, createdAt |-> 0]
StoredMessage == [id |-> <<"uuid", 0>>, name |-> <<"A", "l">>,
                  email |-> <<"a", "@", "b", ".", "c", "o">>,
                  message |-> <<"H", "e", "l", "l", "o", " ", "t", "h", "e",
                                "r", "e", "!", "!">>,
                  sentAt |-> 0]

StoredTexts(p) ==
  { Absent, EmptyText, Unparsable, JSONstringify(NullValue),
    JSONstringify(Arr(<<>>)),
    JSONstringify(Arr(<<IF p = "todo" THEN StoredTodo ELSE StoredMessage>>)) }

InitAnyStore ==
  /\ page \in {"contact", "todo"}
  /\ hasUUID \in BOOLEAN
  /\ sorts = FALSE
  /\ detail = FALSE
  /\ now = 0
  /\ \E raw \in StoredTexts(page), readOk \in BOOLEAN : Loaded(raw, readOk)

SpecAnyStore == InitAnyStore /\ [][Next]_vars

\* The derivation on its own: the page is opened on a stored list of up to
\* two todos, in any order of their timestamps, under either script variant;
\* filter clicks and searches then derive under every mode and query.
DeriveTexts == { <<"a", "B", "c">>, <<"x", "y", "z">> }

DeriveItems(i) ==
  { [id |-> <<"uuid", i>>, text |-> x, completed |-> c, createdAt |-> at] :
      x \in DeriveTexts, c \in BOOLEAN, at \in 0..MaxClock }

DeriveLists ==
  {<<>>} \cup { <<a>> : a \in DeriveItems(1) }
         \cup { <<a, b>> : a \in DeriveItems(1), b \in DeriveItems(2) }

InitDerive ==
  /\ page = "todo"
  /\ hasUUID = TRUE
  /\ sorts \in BOOLEAN
  /\ detail = FALSE
  /\ now = 0
  /\ \E l \in DeriveLists : Loaded(JSONstringify(Arr(l)), TRUE)

NextDerive ==
  \/ \E f \in Filters : FilterClick(f)
  \/ \E v \in SearchTexts : SearchInput(v)
  \/ SearchTimerFire

SpecDerive == InitDerive /\ [][NextDerive]_vars

\* The debounced functions in time: keystrokes in the contact fields and in
\* the todo search box, 100 ms steps of time, and the timers firing.
InitDebounce ==
  /\ page \in {"contact", "todo"}
  /\ hasUUID = TRUE
  /\ sorts = FALSE
  /\ detail = TRUE
  /\ now = 0
  /\ Loaded(Absent, TRUE)

NextDebounce ==
  \/ \E v \in Names : TypeName(v)
  \/ \E v \in Emails : TypeEmail(v)
  \/ \E v \in Bodies : TypeMessage(v)
  \/ \E v \in SearchTexts : SearchInput(v)
  \/ Elapse(100)
  \/ \E f \in Fields : FieldTimerFire(f)
  \/ SearchTimerFire

SpecDebounce == InitDebounce /\ [][NextDebounce]_vars

\* validateEmail on its own: the user types any text of up to MaxEmailLen
\* characters into the e-mail field, key by key, and leaves the field.
EmailChars == {"a", "@", ".", " "}

InitEmail ==
  /\ page = "contact"
  /\ hasUUID = TRUE
  /\ sorts = FALSE
  /\ detail = TRUE
  /\ now = 0
  /\ Loaded(Absent, TRUE)

NextEmail ==
  \/ \E c \in EmailChars :
       /\ Len(emailInput) < MaxEmailLen
       /\ TypeEmail(Append(emailInput, c))
  \/ Blur("email")

SpecEmail == InitEmail /\ [][NextEmail]_vars

\* The todo page on its own, its search timer delivered: submits, deletes,
\* toggles and filter clicks interleave with typing in the search box and
\* with the timer of debouncedSearch.
InitSearch ==
  /\ page = "todo"
  /\ hasUUID = TRUE
  /\ sorts = FALSE
  /\ detail = FALSE
  /\ now = 0
  /\ Loaded(Absent, TRUE)

TodoHandler ==
  \/ \E v \in TodoTexts, io \in IO : SubmitTodo(v, now, io[1], io[2])
  \/ \E k \in 1..Len(listContainer), confirmed \in BOOLEAN, io \in IO :
       DeleteTodo(k, confirmed, io[1], io[2])
  \/ \E k \in 1..Len(listContainer), io \in IO : ToggleTodo(k, io[1], io[2])
  \/ \E f \in Filters : FilterClick(f)

NextSearch ==
  \/ TodoHandler
  \/ \E v \in SearchTexts : SearchInput(v)
  \/ SearchTimerFire

SpecSearch == InitSearch /\ [][NextSearch]_vars /\ WF_vars(SearchTimerFire)

\* The contact form in time: keystrokes, blurs and submits, 100 ms steps of
\* time, and the timers of the debounced validators firing.
InitForm ==
  /\ page = "contact"
  /\ hasUUID = TRUE
  /\ sorts = FALSE
  /\ detail = TRUE
  /\ now = 0
  /\ Loaded(Absent, TRUE)

UserTouchesField ==
  \/ \E v \in Names : TypeName(v)
  \/ \E v \in Emails : TypeEmail(v)
  \/ \E v \in Bodies : TypeMessage(v)
  \/ \E f \in Fields : Blur(f)

NextForm ==
  \/ UserTouchesField
  \/ \E io \in IO : SubmitContact(now, io[1], io[2])
  \/ Elapse(100)
  \/ \E f \in Fields : FieldTimerFire(f)

SpecForm == InitForm /\ [][NextForm]_vars

\* Timers are delivered: a timer that stays due fires eventually.  Nothing
\* obliges the user to act.
TimersFire ==
  /\ WF_vars(SearchTimerFire)
  /\ WF_vars(\E t \in {"stale", "current"}, more \in BOOLEAN :
               AutoHideFire(t, more))

FairSpec == Spec /\ TimersFire

TypeOK ==
  /\ page \in {"contact", "todo"}
  /\ now \in 0..MaxClock
  /\ currentFilter \in Filters
  /\ hideTimers \subseteq {"stale", "current"}

\* ================================================================ claims
\* The list variable of the loaded page and the list held in storage.
InMemory == IF page = "contact" THEN messages ELSE todos

Persisted ==
  IF localStorage.kind = "json" THEN localStorage.value.items ELSE <<>>

\* The items of list that pass the filter mode and contain the trimmed,
\* lower-cased query, in the order of list.
Derivation(list, mode, query) ==
  LET q == toLowerCase(trim(query))
      Pass(t) ==
        /\ (mode = "active" => ~t.completed)
        /\ (mode = "completed" => t.completed)
        /\ (q # <<>> =>
              \E i \in 1..Len(t.text) :
                /\ i + Len(q) - 1 <= Len(t.text)
                /\ \A j \in 1..Len(q) : Lower(t.text[i + j - 1]) = q[j])
  IN SelectSeq(list, Pass)

\* What the page shows for a list: the contact page all of it, the todo
\* page its derivation under the current filter mode and query.
Shown(list) ==
  IF page = "contact" THEN list
  ELSE Derivation(list, currentFilter, currentQuery)

\* The entities of list whose identifier is not id, in the order of list.
ExceptId(list, id) ==
  LET Other(e) == e.id # id IN SelectSeq(list, Other)

StorageErrors ==
  { CouldNotSaveTodo, CouldNotDeleteTodo, CouldNotUpdateTodo,
    CouldNotSaveMessage, CouldNotDeleteMessage }

\* The latest step ran a mutating handler whose write failed and whose
\* read succeeded.
WriteFailedReadOk(e) ==
  e.op \in {"submit", "delete", "toggle"} /\ e.wrote = "fail" /\ e.read = "ok"

\* C1 as stated: when the write of a submit, confirmed delete or toggle
\* fails and the read succeeds, the in-memory list and the rendered list
\* both equal the list persisted before the handler, the persisted list is
\* unchanged and an error message is displayed.
C1_AsStated ==
  [][WriteFailedReadOk(last') =>
       /\ InMemory' = Arr(Persisted)
       /\ listContainer' = Persisted
       /\ localStorage' = localStorage
       /\ submitMsgEl' \in StorageErrors]_vars

\* C1 amended: as C1, except that the rendered list is what the page shows
\* for the persisted list: on the todo page its items that pass the current
\* filter mode and search query.
C1_RevertOnWriteFailure ==
  [][WriteFailedReadOk(last') =>
       /\ InMemory' = Arr(Persisted)
       /\ listContainer' = Shown(Persisted)'
       /\ Persisted' = Persisted
       /\ localStorage' = localStorage
       /\ submitMsgEl' \in StorageErrors]_vars

\* A delete whose write failed has put back the non-empty persisted list.
C1_Witness ==
  /\ last.op = "delete" /\ last.wrote = "fail" /\ last.read = "ok"
  /\ Persisted # <<>>
  /\ InMemory = Arr(Persisted)
  /\ submitMsgEl \in StorageErrors

\* C2: an entity in the persisted list is still there after every step,
\* unless the step is a confirmed delete of its own identifier; a stored
\* contact message is still there with the same fields.
C2_PersistedEntityStays ==
  [][\A i \in 1..Len(Persisted) :
       \/ \E j \in 1..Len(Persisted') :
            /\ Persisted'[j].id = Persisted[i].id
            /\ page = "contact" => Persisted'[j] = Persisted[i]
       \/ /\ last'.op = "delete"
          /\ last'.wrote = "ok"
          /\ listContainer[last'.idx].id = Persisted[i].id]_vars

\* C3: no page load and no handler ends in an uncaught exception.
C3_NoUnhandledFault == ~last.fault

\* What load is to return for the stored text raw: the empty sequence when
\* the read throws, the key is absent or the text does not parse, else the
\* stored value.
LoadContract(raw, readOk) ==
  IF ~readOk \/ raw.kind # "json" THEN Arr(<<>>) ELSE raw.value

\* C4: load and save never throw.  Whatever text is stored, a load (at page
\* load, or after a failed write) leaves a sequence in the list variable:
\* the empty one when the key is absent, the text is unparsable or the read
\* throws, and else the stored one.  A save that succeeds leaves the
\* serialized list in storage and no reload follows; a save that fails
\* leaves the stored text unchanged and its handler reloads.
C4_AdapterContract ==
  [][/\ last'.op = "load" =>
          /\ InMemory' = LoadContract(localStorage, last'.read = "ok")
          /\ InMemory'.kind = "array"
     /\ last'.wrote = "ok" =>
          /\ localStorage' = JSONstringify(InMemory')
          /\ last'.read = "none"
     /\ last'.wrote = "fail" =>
          /\ localStorage' = localStorage
          /\ InMemory' = LoadContract(localStorage, last'.read = "ok")
          /\ InMemory'.kind = "array"]_vars

\* C5: a submit whose fields validate and whose write succeeds puts one new
\* entity, built from the trimmed field values, in front of the earlier
\* entities, leaves storage equal to the list, clears the input(s) and shows
\* the success message.
C5_AcceptedSubmit ==
  [][(last'.op = "submit" /\ last'.wrote = "ok") =>
       LET old == InMemory.items
           new == InMemory'.items
       IN /\ Len(new) = Len(old) + 1
          /\ Tail(new) = old
          /\ localStorage' = JSONstringify(Arr(new))
          /\ IF page = "contact"
             THEN /\ new[1].name = trim(nameInput)
                  /\ new[1].email = trim(emailInput)
                  /\ new[1].message = trim(messageInput)
                  /\ nameInput' = <<>> /\ emailInput' = <<>>
                  /\ messageInput' = <<>>
                  /\ submitMsgEl' = MessageSubmitted
             ELSE /\ new[1].text = trim(last'.typed)
                  /\ new[1].completed = FALSE
                  /\ todoInput' = <<>>
                  /\ submitMsgEl' = TodoAdded]_vars

\* A second entity has been submitted and saved.
C5_Witness ==
  /\ last.op = "submit" /\ last.wrote = "ok"
  /\ Len(InMemory.items) = 2
  /\ Persisted = InMemory.items
  /\ submitMsgEl \in {MessageSubmitted, TodoAdded}

ValidEntity(e) ==
  IF page = "contact"
  THEN /\ Len(trim(e.name)) >= 2
       /\ validateEmail(e.email).valid
       /\ Len(trim(e.message)) >= 10
  ELSE Len(trim(e.text)) >= 3

\* C6: starting from empty storage, every entity in the persisted list and
\* in the in-memory list satisfies its validity rule.
C6_StoredEntitiesValid ==
  /\ \A i \in 1..Len(Persisted) : ValidEntity(Persisted[i])
  /\ \A i \in 1..Len(InMemory.items) : ValidEntity(InMemory.items[i])

\* Two contact messages are stored.
C6_Witness == page = "contact" /\ Len(Persisted) = 2

\* C7: a todo submit whose trimmed text has fewer than 3 characters changes
\* neither list nor the input field and attempts no write; when the trimmed
\* text is not empty it shows "Todo must be at least 3 characters.".
C7_ShortTodoRejected ==
  [][(page = "todo" /\ last'.op = "submit" /\ Len(trim(last'.typed)) < 3) =>
       /\ todos' = todos
       /\ localStorage' = localStorage
       /\ listContainer' = listContainer
       /\ todoInput' = last'.typed
       /\ last'.wrote = "none"
       /\ trim(last'.typed) # <<>> => submitMsgEl' = TodoTooShort]_vars

\* A two-character todo has been rejected while a todo was stored.
C7_Witness ==
  /\ page = "todo" /\ last.op = "submit"
  /\ Len(trim(last.typed)) = 2
  /\ submitMsgEl = TodoTooShort
  /\ Len(todos.items) > 0

\* C8: a confirmed delete whose write succeeds removes from the in-memory
\* and from the persisted list exactly the entities that carry the
\* identifier of the clicked button, and keeps the others as they were and
\* in their order; removing that identifier once more, which no entity
\* carries any longer, leaves the list as it is.
C8_DeleteRemovesExactlyId ==
  [][(last'.op = "delete" /\ last'.wrote = "ok") =>
       LET id == listContainer[last'.idx].id IN
       /\ InMemory'.items = ExceptId(InMemory.items, id)
       /\ Persisted' = ExceptId(Persisted, id)
       /\ filterOutId(InMemory'.items, id) = InMemory'.items]_vars

\* One of two entities has been deleted; the other one is still there.
C8_Witness ==
  /\ last.op = "delete" /\ last.wrote = "ok"
  /\ Len(InMemory.items) = 1
  /\ Persisted = InMemory.items

\* C9: a toggle with a successful write flips the completed flag of an item
\* that carries the identifier of the clicked checkbox and changes nothing
\* else, in the in-memory and in the persisted list.
C9_ToggleFlips ==
  [][(last'.op = "toggle" /\ last'.wrote = "ok") =>
       LET id == listContainer[last'.idx].id IN
       /\ \E i \in 1..Len(todos.items) :
            /\ todos.items[i].id = id
            /\ todos'.items =
                 [todos.items EXCEPT ![i].completed = ~todos.items[i].completed]
       /\ Persisted' = todos'.items]_vars

\* C10: on the todo page the rendered list is the derivation of the
\* in-memory list under the current filter mode and query; so in mode
\* "active" no completed item is rendered, in particular not the item that
\* the latest toggle completed.
C10_RenderedIsDerivation ==
  page = "todo" =>
    /\ listContainer = Derivation(todos.items, currentFilter, currentQuery)
    /\ currentFilter = "active" =>
         \A i \in 1..Len(listContainer) : ~listContainer[i].completed

\* In mode "active" a toggle has completed an item, which is not rendered.
C10_Witness ==
  /\ page = "todo" /\ last.op = "toggle" /\ last.wrote = "ok"
  /\ currentFilter = "active"
  /\ \E i \in 1..Len(todos.items) : todos.items[i].completed
  /\ Len(listContainer) < Len(todos.items)

\* The item t satisfies the completion predicate of mode and, when the
\* trimmed query is not empty, its text contains it case-insensitively.
Matches(t, mode, query) ==
  LET q == trim(query) IN
  /\ mode = "active" => ~t.completed
  /\ mode = "completed" => t.completed
  /\ q # <<>> =>
       \E i \in 0..(Len(t.text) - Len(q)) :
         \A j \in 1..Len(q) : Lower(t.text[i + j]) = Lower(q[j])

\* C11: for every list, mode and query the derived (rendered) sequence
\* holds only items of the list that match mode and query and holds every
\* matching item exactly once; deriving again from the same list, mode and
\* query gives the same sequence, and deriving changes neither the list nor
\* storage.
C11_DerivedExactly ==
  /\ [](LET l == todos.items
            r == listContainer
        IN /\ \A i \in 1..Len(r) :
                \E j \in 1..Len(l) :
                  r[i] = l[j] /\ Matches(l[j], currentFilter, currentQuery)
           /\ \A j \in 1..Len(l) :
                Matches(l[j], currentFilter, currentQuery) =>
                  Cardinality({i \in 1..Len(r) : r[i] = l[j]}) = 1)
  /\ [][(currentFilter' = currentFilter /\ currentQuery' = currentQuery)
          => listContainer' = listContainer]_vars
  /\ [][todos' = todos /\ localStorage' = localStorage]_vars

\* Under mode "completed" and a non-empty query one of two stored todos is
\* derived.
C11_Witness ==
  /\ page = "todo" /\ last.op = "other"
  /\ currentFilter = "completed" /\ trim(currentQuery) # <<>>
  /\ Len(todos.items) = 2 /\ Len(listContainer) = 1

\* C12: in both script variants the rendered sequence is ordered by creation
\* timestamp, newest first, for every list, mode and query.
C12_NewestFirst ==
  page = "todo" =>
    \A i, j \in 1..Len(listContainer) :
      i < j => listContainer[i].createdAt >= listContainer[j].createdAt

\* C13: each debounced function has at most one timer pending; its action
\* runs only when the full delay (300 ms for a contact field, 400 ms for the
\* todo search) has passed since its most recent trigger, and once it has
\* run no timer of the function is left, so a burst of keystrokes runs the
\* action once, after the last keystroke.
C13_Debounce ==
  /\ [](\A fn \in DebouncedFns : Cardinality(timers[fn]) <= 1)
  /\ [][\A f \in Fields :
          FieldTimerFire(f) =>
            /\ sinceTrigger[f] >= 300
            /\ timers'[f] = {}]_vars
  /\ [][SearchTimerFire =>
          /\ sinceTrigger["search"] >= 400
          /\ timers'["search"] = {}]_vars

\* The debounced validation of the name field has run, a full delay after
\* the latest keystroke, while the e-mail field's timer is still pending.
C13_Witness ==
  /\ page = "contact" /\ detail
  /\ fieldError["name"] = NameTooShort
  /\ timers["name"] = {} /\ sinceTrigger["name"] = 300
  /\ \E t \in timers["email"] : t.due > 0

\* C14: a global message shown because a storage write failed is eventually
\* cleared, in either app, without the user having to act.
C14_StorageErrorTransient ==
  (submitMsgEl \in StorageErrors) ~> (submitMsgEl \notin StorageErrors)

\* Text s is p1 "@" p2 "." p3 with non-empty parts that hold no character
\* of barred.
HasForm(s, barred) ==
  \E i, j \in 1..Len(s) :
    /\ i < j /\ s[i] = "@" /\ s[j] = "."
    /\ SubSeq(s, 1, i - 1) # <<>>
    /\ SubSeq(s, i + 1, j - 1) # <<>>
    /\ SubSeq(s, j + 1, Len(s)) # <<>>
    /\ \A k \in 1..Len(s) : k \notin {i, j} => s[k] \notin barred

\* [^\s@] bars white space and "@" from a part.
BarredByPattern == WhiteSpace \cup {"@"}

\* C15 as stated: validateEmail accepts a raw input exactly when it has the
\* form nonspace+ "@" nonspace+ "." nonspace+.
C15_AsStated ==
  [][Blur("email") =>
       (fieldError'["email"] = "" <=> HasForm(emailInput, WhiteSpace))]_vars

\* C15: validateEmail accepts a raw input exactly when the input, with the
\* white space at its two ends removed, has the form p "@" p "." p where
\* each p is one or more characters none of which is white space or "@".
C15_AcceptsTrimmedStrict ==
  [][Blur("email") =>
       /\ fieldError'["email"] = "" <=>
            HasForm(trim(emailInput), BarredByPattern)
       /\ fieldError'["email"] = EmailRequired <=> trim(emailInput) = <<>>
       /\ fieldError'["email"] \in {"", EmailRequired, EmailInvalid}]_vars

\* The input " a@a.a", which starts with a space, has been accepted.
C15_Witness ==
  /\ last.op = "blur"
  /\ emailInput = <<" ", "a", "@", "a", ".", "a">>
  /\ fieldError["email"] = ""

\* C16: starting from empty storage, the identifiers of the entities of the
\* in-memory list, and of the persisted list, are pairwise distinct, whether
\* they come from crypto.randomUUID or from Date.now().
C16_UniqueIds ==
  /\ \A i, j \in 1..Len(InMemory.items) :
       i # j => InMemory.items[i].id # InMemory.items[j].id
  /\ \A i, j \in 1..Len(Persisted) : i # j => Persisted[i].id # Persisted[j].id

\* C17: on the todo page the counter shows the length of the whole in-memory
\* list and the number of its completed items, whatever filter mode and
\* query are applied.
C17_CounterCountsWholeList ==
  page = "todo" =>
    /\ counterEl.total = Len(todos.items)
    /\ counterEl.completed =
         Cardinality({i \in 1..Len(todos.items) : todos.items[i].completed})

\* One of two todos is completed and the rendering hides one of them; the
\* counter still counts both.
C17_Witness ==
  /\ page = "todo" /\ last.op = "toggle" /\ last.wrote = "ok"
  /\ Len(todos.items) = 2 /\ Len(listContainer) = 1
  /\ counterEl = [total |-> 2, completed |-> 1]

\* C19: in both apps every submit, delete and toggle handler leaves the
\* in-memory list equal to the list held in storage, whichever of its storage
\* write and storage read have failed.
C19_InMemoryEqualsStorage ==
  [][last'.op \in {"submit", "delete", "toggle"} =>
       InMemory' = Arr(Persisted')]_vars

\* The items of the in-memory list that match the current mode and query,
\* in the order of the list.
Derived(query) ==
  SelectSeq(todos.items, LAMBDA t : Matches(t, currentFilter, query))

DerivedApplied == Derived(currentQuery)

\* C18: either the user types in the search box again and again, or from
\* some point on the applied query is the content of the box and the
\* rendered list is the derivation for it; and while the search timer is
\* pending, a step that neither types in the box nor fires the timer (a
\* submit, delete, toggle or filter click) leaves the applied query as it
\* was and renders the derivation for that query.
C18_SearchApplied ==
  /\ \/ <>[](currentQuery = searchInput /\ listContainer = Derived(searchInput))
     \/ []<><<\E v \in SearchTexts : SearchInput(v)>>_vars
  /\ [][(timers["search"] # {} /\ timers' = timers
           /\ searchInput' = searchInput) =>
          (currentQuery' = currentQuery /\ listContainer' = DerivedApplied')]_vars

\* A todo is added while the box holds a text that is not applied yet: the
\* rendered list shows it under the old query although the text in the box
\* matches no item.
C18_Witness ==
  /\ last.op = "submit" /\ last.wrote = "ok"
  /\ timers["search"] # {}
  /\ searchInput # currentQuery
  /\ listContainer # <<>>
  /\ Derived(searchInput) = <<>>

\* The form as a successful submit leaves it: a message stored, the three
\* fields emptied by form.reset(), no field error displayed.
AfterSubmit ==
  /\ page = "contact"
  /\ messages.items # <<>>
  /\ nameInput = <<>> /\ emailInput = <<>> /\ messageInput = <<>>
  /\ fieldError = NoErrors

\* C20: once a successful submit has reset the contact form and cleared the
\* three field errors, no field error appears as long as the user does not
\* act on the form (types in or blurs a field, or submits again), also when
\* a debounced validation timer was pending at the submit.
C20_NoErrorAfterSubmit ==
  [][(AfterSubmit /\ ~UserTouchesField /\ last'.op # "submit") =>
       fieldError' = NoErrors]_vars

\* C22: in the contact form, whenever an error text is displayed for a
\* field, the validator of that field rejects the field's current value with
\* that text, whatever the interleaving of input, blur, submit, form reset
\* and debounce timers.
C22_ErrorMatchesValue ==
  page = "contact" =>
    \A f \in Fields :
      fieldError[f] # "" =>
        /\ ~validateField(f).valid
        /\ validateField(f).message = fieldError[f]

\* A debounced validator has fired on a name that is too short while the
\* e-mail field holds a valid value and shows no error.
C22_Witness ==
  /\ page = "contact" /\ last.op = "other"
  /\ timers["name"] = {}
  /\ nameInput = <<"A">> /\ fieldError["name"] = NameTooShort
  /\ validateEmail(emailInput).valid /\ fieldError["email"] = ""

\* C21: in the contact form a displayed global message is cleared only by
\* its own auto-hide timer: when a message disappears, the timer started for
\* it is no longer pending, so no timer of an earlier message has cleared it
\* before its own delay has run out.
C21_ClearedByOwnTimer ==
  [][(page = "contact" /\ submitMsgEl # "" /\ submitMsgEl' = "") =>
       "current" \notin hideTimers']_vars

====
